---- MODULE Spec2Model ----
(***************************************************************************)
(* Model of the client-side data-access and authentication layer of       *)
(* pubky-ical-poc: the PubkyClient facade (lib/pubky-client.ts), the       *)
(* calendar write services (services/calendar-service.ts) and the          *)
(* delegated-authorization dialog (components/auth/AuthDialog.tsx).        *)
(*                                                                         *)
(* JavaScript runs every async function atomically between two awaits, so  *)
(* one action of the model is one such segment of one async call.  Each    *)
(* async call in progress occupies one slot of Tasks.  The storage runtime *)
(* (the SDK) is the environment: a call handed to it sits in inflight      *)
(* until the runtime resolves or rejects it.                               *)
(***************************************************************************)
EXTENDS Integers, FiniteSets, Sequences, TLC

\* ------------------------------------------------------------ bounds ----
NumTasks == 2      \* async calls that can be in progress at the same time
MaxSessions == 2   \* Session handles the runtime hands out in one run
MaxOps == 3        \* calls started in one run
MaxItems == 2      \* resource URIs in one collection listing
MaxNameLen == 2    \* characters of a calendar name typed into a form
MaxIdLen == 2      \* characters of a record id in a path
MaxClock == 1      \* milliseconds Date.now() advances in one run

Tasks == 1..NumTasks
None == 0          \* null / undefined
Handles == 1..MaxSessions

\* -------------------------------------------------------- error kinds ---
ErrorCodes ==
  {"NETWORK_ERROR", "TIMEOUT", "NEXUS_API_ERROR", "NEXUS_NOT_FOUND",
   "HOMESERVER_ERROR", "AUTH_FAILED", "AUTH_EXPIRED", "UNAUTHORIZED",
   "INVALID_DATA", "PARSE_ERROR", "NOT_FOUND", "UNKNOWN_ERROR"}

\* the AppError built by the catch block of uploadImage
UploadError == [code |-> "HOMESERVER_ERROR", message |-> "Failed to upload image"]

\* the AppError thrown when the record put returns false
RecordError(op) ==
  [code |-> "HOMESERVER_ERROR",
   message |-> CASE op = "createCalendar" -> "Failed to create calendar on homeserver"
                 [] op = "updateCalendar" -> "Failed to update calendar on homeserver"
                 [] OTHER -> "Failed to create event on homeserver"]

\* the AppError the outer catch wraps a non-AppError into
WrapError(op) ==
  [code |-> "HOMESERVER_ERROR",
   message |-> CASE op = "createCalendar" -> "Failed to create calendar"
                 [] op = "updateCalendar" -> "Failed to update calendar"
                 [] OTHER -> "Failed to create event"]

\* ------------------------------------------------------------- paths ----
BlobPath == "/pub/pubky.app/blobs/<blobId>"
CalendarPath == "/pub/pubky.app/calendar/<calendarId>"
EventPath == "/pub/pubky.app/event/<eventId>"

RecordPath(op) == IF op = "createEvent" THEN EventPath ELSE CalendarPath

WriteOps == {"createCalendar", "updateCalendar", "createEvent"}
DeleteOps == {"deleteCalendar", "deleteEvent"}
ReadOps == {"fetchCalendar", "fetchEvent", "fetchCalendarMetadata"}
ListOp == "fetchUserCalendars"

\* the AppError the catch of fetchCalendarMetadata and the outer catch of
\* fetchUserCalendars wrap a failure into
FetchError(op) ==
  [code |-> "HOMESERVER_ERROR",
   message |-> IF op = "fetchCalendarMetadata"
               THEN "Failed to fetch calendar metadata"
               ELSE "Failed to fetch user calendars"]

\* the facade call a call starts with
FacadeCall(op) ==
  CASE op \in {"get"} \cup ReadOps -> "get"
    [] op \in {"list", ListOp} -> "list"
    [] op = "authRun" -> "startAuthFlow"
    [] OTHER -> op

VARIABLES
  initialized,     \* PubkyClient.initialized
  pubky,           \* PubkyClient.pubky: None, or the number of the entry point
  constructed,     \* how many runtime entry points were constructed
  currentSession,  \* PubkyClient.currentSession: None or a handle
  nextHandle,      \* the next Session handle the runtime hands out
  revoked,         \* handles the runtime has signed out
  store,           \* paths stored at the provider
  inflight,        \* calls handed to the runtime and not yet settled
  task,            \* the async call running in each slot
  dialogOpen,      \* auth store: isAuthDialogOpen
  opsStarted,      \* calls started so far
  retired,         \* handles the facade held and no longer holds
  sinceSignout,    \* how the last signout ended, until a Session is installed
  auth,            \* auth store: user and isAuthenticated
  view             \* the state and refs of the component that fetches for a key

vars == <<auth, view, initialized, pubky, constructed, currentSession, nextHandle, revoked,
          store, inflight, task, dialogOpen, opsStarted, retired, sinceSignout>>

\* ---- form data ------------------------------------------------------------
\* a name is a sequence of characters; " " stands for any whitespace
RECURSIVE NamesUpTo(_)
NamesUpTo(n) ==
  IF n = 0 THEN {<<>>}
  ELSE LET shorter == NamesUpTo(n - 1)
       IN shorter \cup {Append(w, c) : w \in shorter, c \in {" ", "a"}}

\* String.prototype.trim
RECURSIVE TrimStart(_)
TrimStart(w) ==
  IF w # <<>> /\ Head(w) = " " THEN TrimStart(Tail(w)) ELSE w
RECURSIVE TrimEnd(_)
TrimEnd(w) ==
  IF w # <<>> /\ w[Len(w)] = " " THEN TrimEnd(SubSeq(w, 1, Len(w) - 1)) ELSE w
Trim(w) == TrimEnd(TrimStart(w))

\* generateTimestampId: (Date.now() * 1000).toString(32).toUpperCase()
\* .padStart(13, "0"); the clock is sampled so that now * 1000 stays an integer
\* of the checker
IdLength == 13
NowSamples == {0, 1, 33, 1048576}
Digits32 ==
  <<"0", "1", "2", "3", "4", "5", "6", "7", "8", "9", "A", "B", "C", "D", "E",
    "F", "G", "H", "I", "J", "K", "L", "M", "N", "O", "P", "Q", "R", "S", "T",
    "U", "V">>
RECURSIVE ToString32(_)
ToString32(n) ==
  IF n < 32 THEN <<Digits32[n + 1]>>
  ELSE Append(ToString32(n \div 32), Digits32[(n % 32) + 1])
RECURSIVE PadStart(_, _, _)
PadStart(w, n, c) == IF Len(w) >= n THEN w ELSE PadStart(<<c>> \o w, n, c)
generateTimestampId(now) == PadStart(ToString32(now * 1000), IdLength, "0")

\* ---- resource addresses ---------------------------------------------------
\* strings are sequences of characters
Scheme == <<"p", "u", "b", "k", "y", ":", "/", "/">>
AddressPrefix == <<"p", "u", "b", "k", "y">>
Undefined == <<"undefined">>

RECURSIVE StringsOf(_, _)
StringsOf(chars, n) ==
  IF n = 0 THEN {<<>>}
  ELSE {Append(w, c) : w \in StringsOf(chars, n - 1), c \in chars}

\* public keys: no "/" and no ":", longer than any path segment (52
\* characters against the 13 of an id), and never a part of the scheme word
OwnerLen == MaxIdLen + 2
OwnerIds == StringsOf({"p", "u"}, OwnerLen)
\* relative paths of records: the namespace and a record id
RecordIds == UNION {StringsOf({"u", "0"}, n) : n \in 1..MaxIdLen}
RecordPaths == {<<"/", "p", "u", "b", "/">> \o id : id \in RecordIds}

\* pubky://<owner><path>
UriOf(owner, path) == Scheme \o owner \o path

StartsAt(w, pat, i) ==
  /\ i + Len(pat) - 1 <= Len(w)
  /\ SubSeq(w, i, i + Len(pat) - 1) = pat
\* String.prototype.indexOf, counted from 1; 0 when pat does not occur
IndexOf(w, pat) ==
  LET hits == {i \in 1..Len(w) : StartsAt(w, pat, i)}
  IN IF hits = {} THEN 0 ELSE CHOOSE i \in hits : \A j \in hits : i <= j
\* String.prototype.replace with a string pattern: the first occurrence
ReplaceFirst(w, pat, by) ==
  LET i == IndexOf(w, pat)
  IN IF i = 0 THEN w
     ELSE SubSeq(w, 1, i - 1) \o by \o SubSeq(w, i + Len(pat), Len(w))
\* w.split(sep)[0] and w.split(sep)[1]
SplitFirst(w, sep) ==
  LET i == IndexOf(w, sep) IN IF i = 0 THEN w ELSE SubSeq(w, 1, i - 1)
SplitSecond(w, sep) ==
  LET i == IndexOf(w, sep)
      rest == SubSeq(w, i + Len(sep), Len(w))
      j == IndexOf(rest, sep)
  IN IF i = 0 THEN Undefined
     ELSE IF j = 0 THEN rest ELSE SubSeq(rest, 1, j - 1)
\* the longest run of characters other than "/" from position i
RECURSIVE NonSlashRun(_, _)
NonSlashRun(w, i) ==
  IF i > Len(w) \/ w[i] = "/" THEN 0 ELSE 1 + NonSlashRun(w, i + 1)
\* group 1 of w.match(/pubky:\/\/[^/]+(.+)/) with the scheme found at i, or
\* Undefined: [^/]+ is greedy and gives one character back at the end of w
GroupAt(w, i) ==
  LET from == i + Len(Scheme)
      run == NonSlashRun(w, from)
  IN IF ~StartsAt(w, Scheme, i) \/ run = 0 THEN Undefined
     ELSE IF from + run <= Len(w) THEN SubSeq(w, from + run, Len(w))
     ELSE IF run >= 2 THEN <<w[Len(w)]>>
     ELSE Undefined
\* `pathMatch ? pathMatch[1] : uri` for the leftmost match
MatchPath(w) ==
  LET hits == {i \in 1..Len(w) : GroupAt(w, i) # Undefined}
  IN IF hits = {} THEN w
     ELSE GroupAt(w, CHOOSE i \in hits : \A j \in hits : i <= j)

\* ---- URI helpers ---------------------------------------------------------
\* an argument of a helper: a string, null or undefined
NoInput == [kind |-> "none", s |-> <<>>]
Str(w) == [kind |-> "string", s |-> w]
\* a result: null (ok is FALSE), one string (a) or a pair of strings (a, b)
NoResult == [ok |-> FALSE, a |-> <<>>, b |-> <<>>]
Value(w) == [ok |-> TRUE, a |-> w, b |-> <<>>]
\* `x || null` for a string x
OrNull(w) == IF w = <<>> THEN NoResult ELSE Value(w)
\* `!uri`
Falsy(in) == in.kind # "string" \/ in.s = <<>>

\* w.split("/")
RECURSIVE SplitSlash(_)
SplitSlash(w) ==
  LET i == IndexOf(w, <<"/">>)
  IN IF i = 0 THEN <<w>>
     ELSE <<SubSeq(w, 1, i - 1)>> \o SplitSlash(SubSeq(w, i + 1, Len(w)))

extractFileId(in) ==
  IF Falsy(in) THEN NoResult
  ELSE LET parts == SplitSlash(in.s) IN OrNull(parts[Len(parts)])

extractPublicKey(in) ==
  IF Falsy(in) \/ ~StartsAt(in.s, Scheme, 1) THEN NoResult
  ELSE OrNull(SplitSlash(ReplaceFirst(in.s, Scheme, <<>>))[1])

PubkyColon == <<"p", "u", "b", "k", "y", ":">>
parseCalendarUri(in) ==
  LET parts == SplitSlash(in.s)
  IN IF Len(parts) >= 7 /\ parts[1] = PubkyColon
     THEN [ok |-> TRUE, a |-> ReplaceFirst(parts[3], Scheme, <<>>), b |-> parts[7]]
     ELSE NoResult

CalendarPage == <<"/", "c", "a", "l", "e", "n", "d", "a", "r", "/">>
getCalendarPageUrl(in) ==
  LET parsed == parseCalendarUri(in)
  IN IF ~parsed.ok THEN NoResult
     ELSE Value(CalendarPage \o parsed.a \o <<"/">> \o parsed.b)

HelperResult(fn, in) ==
  CASE fn = "extractFileId" -> extractFileId(in)
    [] fn = "extractPublicKey" -> extractPublicKey(in)
    [] fn = "parseCalendarUri" -> parseCalendarUri(in)
    [] OTHER -> getCalendarPageUrl(in)

\* the strings the helpers are tried on: a prefix, an author, a namespace, a
\* collection and an id, each possibly wrong or missing
HelperInputs ==
  LET prefixes == {Scheme, <<"p", "u", "b", "k", "y", ":", "/">>,
                   <<"h", "t", "t", "p", ":", "/", "/">>, <<>>}
      authors == {<<"u", "1">>, <<>>}
      namespaces ==
        {<<"/", "p", "u", "b", "/", "p", "u", "b", "k", "y", ".", "a", "p", "p", "/">>,
         <<"/", "w", "r", "o", "n", "g", "/">>, <<"/">>}
      collections == {<<"c", "a", "l", "e", "n", "d", "a", "r">>,
                      <<"e", "v", "e", "n", "t">>, <<"p", "a", "t", "h">>}
      tails == {<<"/", "c", "1">>, <<"/">>, <<>>, <<"/", "c", "1", "/", "x">>}
      strings == {<<>>} \cup
                 {p \o a \o n \o c \o e : p \in prefixes, a \in authors,
                    n \in namespaces, c \in collections, e \in tails}
  IN {Str(w) : w \in strings}
       \cup {[kind |-> "null", s |-> <<>>], [kind |-> "undefined", s |-> <<>>]}
\* pubky://<author>/pub/pubky.app/calendar/<id>
IsCalendarUri(w) ==
  LET parts == SplitSlash(w)
  IN /\ Len(parts) = 7
     /\ parts[1] = PubkyColon /\ parts[2] = <<>> /\ parts[3] # <<>>
     /\ parts[4] = <<"p", "u", "b">>
     /\ parts[5] = <<"p", "u", "b", "k", "y", ".", "a", "p", "p">>
     /\ parts[6] = <<"c", "a", "l", "e", "n", "d", "a", "r">>
     /\ parts[7] # <<>>

\* ---- user interface state ------------------------------------------------
\* the auth store before any login
SignedOut == [user |-> "null", isAuthenticated |-> FALSE]

\* `session.info.publicKey.z32()`: the key of the user who approves
SessionKey == "pk"
\* public keys a hook or a page is given
Keys == {"keyA", "keyB"}

\* a component that fetches for a key (useProfile, a page, useCalendarImage):
\* the key, mountedRef, currentRequestRef, the state (the data shown,
\* isLoading, error), the clock, and what was committed last
NoView ==
  [kind |-> "none", key |-> "null", alive |-> FALSE, mounted |-> TRUE,
   current |-> <<>>,
   profile |-> "null", loading |-> FALSE, error |-> FALSE, clock |-> 0,
   issued |-> 0, commit |-> [n |-> 0, latest |-> 0, mounted |-> TRUE]]

IdleTask ==
  [op |-> "idle", pc |-> "idle", step |-> "none", res |-> "none", sessAtCall |-> None,
   calls |-> 0, afterSignout |-> FALSE, outcome |-> "none",
   err |-> [code |-> "", message |-> ""],
   img |-> FALSE, valid |-> TRUE, blobOk |-> FALSE, metaIssued |-> FALSE,
   putFailed |-> FALSE, cancelled |-> FALSE,
   rt |-> "none", val |-> "none", logs |-> 0, flogs |-> 0,
   items |-> 0, idx |-> 0, got |-> 0, good |-> 0, bad |-> 0,
   form |-> "none", mode |-> "none", name |-> <<"a">>, prev |-> "null",
   remove |-> FALSE, existing |-> "null", id |-> <<>>,
   rec |-> [name |-> <<>>, image |-> "none"],
   puts |-> <<>>, owner |-> <<>>, path |-> <<>>, arg |-> <<>>,
   caller |-> <<>>, input |-> NoInput, result |-> NoResult,
   req |-> [pk |-> "null", id |-> <<>>, n |-> 0],
   user |-> "null", shown |-> "none", onSuccess |-> FALSE]

Init ==
  /\ initialized = FALSE
  /\ pubky = None
  /\ constructed = 0
  /\ currentSession = None
  /\ nextHandle = 1
  /\ revoked = {}
  /\ store = {}
  /\ inflight = {}
  /\ task = [t \in Tasks |-> IdleTask]
  /\ dialogOpen = FALSE
  /\ opsStarted = 0
  /\ retired = {}
  /\ sinceSignout = "no"
  /\ auth = SignedOut
  /\ view = NoView

\* a new call takes the first free slot (the slots are interchangeable)
Idle(t) ==
  /\ task[t].op = "idle"
  /\ \A u \in Tasks : u < t => task[u].op # "idle"
  /\ opsStarted < MaxOps

Call(t, call, sess, path, step) ==
  [t |-> t, call |-> call, sess |-> sess, path |-> path, step |-> step]

\* =========================================================== facade =====
\* ensureInitialized: the guard `if (this.initialized && this.pubky) return`
IsInitialized(i, p) == i /\ p # None

\* the guard of put and delete: `if (!this.currentSession) return false`
HasSessionAlways(s) == TRUE
HasSession(s) == s # None

\* signin: `if (session) { this.currentSession = session }`
SigninInstallAny(cur, session) == session
SigninInstall(cur, session) == IF session # None THEN session ELSE cur

\* signout: try { await signout() } catch {}; this.currentSession = null
SessionAfterSignoutKeepOnError(cur, ok) == IF ok THEN None ELSE cur
SessionAfterSignoutKeep(cur, ok) == cur
SessionAfterSignout(cur, ok) == None

\* a call that starts with `await this.ensureInitialized()`: the guard is
\* evaluated synchronously, the import is awaited when it does not hold
EnsureEnter(t, op) ==
  /\ Idle(t)
  /\ opsStarted' = opsStarted + 1
  /\ task' = [task EXCEPT ![t] =
       [IdleTask EXCEPT !.op = op, !.step = FacadeCall(op),
                        !.pc = IF IsInitialized(initialized, pubky)
                               THEN "ready" ELSE "importing"]]

\* ensureInitialized after `await import(...)`: construct the entry point
Construct(t) ==
  /\ task[t].pc = "importing"
  /\ constructed' = constructed + 1
  /\ pubky' = constructed + 1
  /\ initialized' = TRUE
  /\ task' = [task EXCEPT ![t].pc = "ready"]
  /\ UNCHANGED <<auth, view, currentSession, nextHandle, revoked, store, inflight,
                 dialogOpen, opsStarted, retired, sinceSignout>>

\* ensureInitialized rejects: the import or the constructor of the entry
\* point throws, outside the try of the facade call, which rejects too; a
\* service that awaits the call inside its own try resumes in its catch
ConstructFail(t) ==
  /\ task[t].pc = "importing"
  /\ task' = [task EXCEPT ![t] =
       IF task[t].op \in ReadOps \cup {ListOp}
       THEN [task[t] EXCEPT !.pc = "ret", !.res = "threw"]
       ELSE [task[t] EXCEPT !.pc = "done", !.res = "threw", !.outcome = "thrown"]]
  /\ UNCHANGED <<auth, view, initialized, pubky, constructed, currentSession, nextHandle,
                 revoked, store, inflight, dialogOpen, opsStarted, retired,
                 sinceSignout>>

\* the puts a service has called so far
PutsAfter(puts, call, step, path) ==
  IF call = "putBytes" THEN Append(puts, [step |-> step, path |-> path]) ELSE puts

\* put / delete up to their await: base is the caller's record at the call
FacadeWrite(t, call, path, step, base) ==
  IF HasSession(currentSession)
  THEN /\ inflight' = inflight \cup {Call(t, call, currentSession, path, step)}
       /\ task' = [task EXCEPT ![t] =
            [base EXCEPT !.pc = "wait", !.step = step, !.res = "none",
                         !.sessAtCall = currentSession, !.calls = 1,
                         !.afterSignout = (sinceSignout # "no"),
                         !.puts = PutsAfter(base.puts, call, step, path)]]
  ELSE /\ inflight' = inflight
       /\ task' = [task EXCEPT ![t] =
            [base EXCEPT !.pc = "ret", !.step = step, !.res = "false",
                         !.sessAtCall = currentSession, !.calls = 0,
                         !.afterSignout = (sinceSignout # "no"),
                         !.puts = PutsAfter(base.puts, call, step, path)]]

\* putBytes settles: put returns true, or catches the error and returns false
PutSettled(c, ok) ==
  /\ c \in inflight /\ c.call = "putBytes"
  /\ ok => c.sess \in Handles \ revoked
  /\ inflight' = inflight \ {c}
  /\ store' = IF ok THEN store \cup {c.path} ELSE store
  /\ task' = [task EXCEPT ![c.t].pc = "ret",
                          ![c.t].res = IF ok THEN "true" ELSE "false"]
  /\ UNCHANGED <<auth, view, initialized, pubky, constructed, currentSession, nextHandle,
                 revoked, dialogOpen, opsStarted, retired, sinceSignout>>

\* storage.delete settles: delete returns true, or false on an error
DeleteSettled(c, ok) ==
  /\ c \in inflight /\ c.call = "delete"
  /\ ok => c.sess \in Handles \ revoked
  /\ inflight' = inflight \ {c}
  /\ store' = IF ok THEN store \ {c.path} ELSE store
  /\ task' = [task EXCEPT ![c.t].pc = "ret",
                          ![c.t].res = IF ok THEN "true" ELSE "false"]
  /\ UNCHANGED <<auth, view, initialized, pubky, constructed, currentSession, nextHandle,
                 revoked, dialogOpen, opsStarted, retired, sinceSignout>>

\* ---- get ---------------------------------------------------------------
\* get: `return bytes || null`, and null from the catch after console.error
GetResultRethrow(rt) ==
  CASE rt = "absent" -> "null" [] rt = "error" -> "threw" [] OTHER -> rt
GetResult(rt) ==
  CASE rt = "absent" -> "null" [] rt = "error" -> "null" [] OTHER -> rt

StartGet(t) ==
  /\ EnsureEnter(t, "get")
  /\ UNCHANGED <<auth, view, initialized, pubky, constructed, currentSession, nextHandle,
                 revoked, store, inflight, dialogOpen, retired, sinceSignout>>

GetCall(t, path) ==
  /\ task[t].op \in {"get"} \cup ReadOps /\ task[t].pc = "ready"
  /\ task[t].op = "fetchEvent" <=> path = EventPath
  /\ inflight' = inflight \cup {Call(t, "getBytes", None, path, "get")}
  /\ task' = [task EXCEPT ![t].pc = "wait", ![t].step = "get"]
  /\ UNCHANGED <<auth, view, initialized, pubky, constructed, currentSession, nextHandle,
                 revoked, store, dialogOpen, opsStarted, retired, sinceSignout>>

\* getBytes settles with bytes that parse (bytes), bytes that do not
\* (garbage), nothing (absent) or a rejection (error); the facade get ends
GetSettled(c, rt) ==
  /\ c \in inflight /\ c.call = "getBytes"
  /\ inflight' = inflight \ {c}
  /\ LET r == GetResult(rt)
         tk == [task[c.t] EXCEPT !.rt = rt, !.res = r,
                  !.flogs = IF rt = "error" THEN @ + 1 ELSE @]
     IN task' = [task EXCEPT ![c.t] =
          IF tk.op = "get"
          THEN [tk EXCEPT !.pc = "done",
                          !.outcome = IF r = "threw" THEN "thrown" ELSE "returned"]
          ELSE [tk EXCEPT !.pc = "ret"]]
  /\ UNCHANGED <<auth, view, initialized, pubky, constructed, currentSession, nextHandle,
                 revoked, store, dialogOpen, opsStarted, retired, sinceSignout>>

\* ---- list --------------------------------------------------------------
StartList(t) ==
  /\ EnsureEnter(t, "list")
  /\ UNCHANGED <<auth, view, initialized, pubky, constructed, currentSession, nextHandle,
                 revoked, store, inflight, dialogOpen, retired, sinceSignout>>

\* session storage for a relative url while a session is held, else public
ListCall(t, relative) ==
  /\ task[t].op \in {"list", ListOp} /\ task[t].pc = "ready"
  /\ task[t].op = ListOp => ~relative
  /\ inflight' = inflight \cup
       {Call(t, "list",
             IF currentSession # None /\ relative THEN currentSession ELSE None,
             CalendarPath, "list")}
  /\ task' = [task EXCEPT ![t].pc = "wait", ![t].step = "list"]
  /\ UNCHANGED <<auth, view, initialized, pubky, constructed, currentSession, nextHandle,
                 revoked, store, dialogOpen, opsStarted, retired, sinceSignout>>

\* list settles with n resource URIs: `return results || []`, or [] from
\* the catch
ListSettled(c, n, ok) ==
  /\ c \in inflight /\ c.call = "list"
  /\ ok => c.sess \notin revoked
  /\ ~ok => n = 0
  /\ inflight' = inflight \ {c}
  /\ LET tk == [task[c.t] EXCEPT !.rt = IF ok THEN "bytes" ELSE "error",
                                 !.res = IF n > 0 THEN "items" ELSE "empty",
                                 !.items = n]
     IN task' = [task EXCEPT ![c.t] =
          IF tk.op = "list"
          THEN [tk EXCEPT !.pc = "done", !.outcome = "returned"]
          ELSE [tk EXCEPT !.pc = "ret"]]
  /\ UNCHANGED <<auth, view, initialized, pubky, constructed, currentSession, nextHandle,
                 revoked, store, dialogOpen, opsStarted, retired, sinceSignout>>

\* the facade lets go of the handle it holds
Retire(h) == IF h = None THEN retired ELSE retired \cup {h}

\* ---- signup ------------------------------------------------------------
StartSignup(t) ==
  /\ EnsureEnter(t, "signup")
  /\ UNCHANGED <<auth, view, initialized, pubky, constructed, currentSession, nextHandle,
                 revoked, store, inflight, dialogOpen, retired, sinceSignout>>

SignupCall(t) ==
  /\ task[t].op = "signup" /\ task[t].pc = "ready"
  /\ inflight' = inflight \cup {Call(t, "signup", None, "", "signup")}
  /\ task' = [task EXCEPT ![t].pc = "wait", ![t].step = "signup"]
  /\ UNCHANGED <<auth, view, initialized, pubky, constructed, currentSession, nextHandle,
                 revoked, store, dialogOpen, opsStarted, retired, sinceSignout>>

\* signup throws before `this.currentSession = session` when the signer rejects
SessionAfterFailedSignupNone(cur) == None
SessionAfterFailedSignup(cur) == cur

\* signer.signup resolves with a Session, or rejects and signup throws
SignupSettled(c, ok) ==
  /\ c \in inflight /\ c.call = "signup"
  /\ ok => nextHandle <= MaxSessions
  /\ inflight' = inflight \ {c}
  /\ IF ok
     THEN /\ currentSession' = nextHandle
          /\ nextHandle' = nextHandle + 1
          /\ retired' = Retire(currentSession)
          /\ sinceSignout' = "no"
          /\ task' = [task EXCEPT ![c.t].pc = "done", ![c.t].res = "true",
                                  ![c.t].outcome = "returned"]
     ELSE /\ task' = [task EXCEPT ![c.t].pc = "done", ![c.t].res = "false",
                                  ![c.t].outcome = "thrown"]
          /\ currentSession' = SessionAfterFailedSignup(currentSession)
          /\ UNCHANGED <<nextHandle, retired, sinceSignout>>
  /\ UNCHANGED <<auth, view, initialized, pubky, constructed, revoked, store, dialogOpen,
                 opsStarted>>

\* ---- signin ------------------------------------------------------------
StartSignin(t) ==
  /\ EnsureEnter(t, "signin")
  /\ UNCHANGED <<auth, view, initialized, pubky, constructed, currentSession, nextHandle,
                 revoked, store, inflight, dialogOpen, retired, sinceSignout>>

SigninCall(t) ==
  /\ task[t].op = "signin" /\ task[t].pc = "ready"
  /\ inflight' = inflight \cup {Call(t, "signin", None, "", "signin")}
  /\ task' = [task EXCEPT ![t].pc = "wait", ![t].step = "signin"]
  /\ UNCHANGED <<auth, view, initialized, pubky, constructed, currentSession, nextHandle,
                 revoked, store, dialogOpen, opsStarted, retired, sinceSignout>>

\* signer.signin resolves with a Session or with undefined, or rejects
SigninSettled(c, r) ==
  /\ c \in inflight /\ c.call = "signin"
  /\ r = "session" => nextHandle <= MaxSessions
  /\ inflight' = inflight \ {c}
  /\ IF r = "throw"
     THEN /\ task' = [task EXCEPT ![c.t].pc = "done", ![c.t].res = "false",
                                  ![c.t].outcome = "returned"]
          /\ UNCHANGED <<auth, view, currentSession, nextHandle, retired, sinceSignout>>
     ELSE LET session == IF r = "session" THEN nextHandle ELSE None IN
          /\ currentSession' = SigninInstall(currentSession, session)
          /\ nextHandle' = IF session # None THEN nextHandle + 1 ELSE nextHandle
          /\ retired' = IF session # None THEN Retire(currentSession) ELSE retired
          /\ sinceSignout' = IF session # None THEN "no" ELSE sinceSignout
          /\ task' = [task EXCEPT ![c.t].pc = "done",
                                  ![c.t].res = IF session # None THEN "true" ELSE "false",
                                  ![c.t].outcome = "returned"]
  /\ UNCHANGED <<auth, view, initialized, pubky, constructed, revoked, store, dialogOpen,
                 opsStarted>>

\* ---- signout -----------------------------------------------------------
\* the cleanup of the dialog's effect sets the `cancelled` of its run()
CancelRuns(tasks) ==
  [u \in Tasks |->
     IF tasks[u].op = "authRun" THEN [tasks[u] EXCEPT !.cancelled = TRUE]
     ELSE tasks[u]]

\* the end of logout: cookies and storage keys are cleared (every error is
\* caught), then `set({ user: null, isAuthenticated: false,
\* isAuthDialogOpen: false })`; closing the dialog runs its effect's cleanup
LogoutClear(t, tasks) ==
  /\ auth' = SignedOut
  /\ dialogOpen' = FALSE
  /\ task' = CancelRuns([tasks EXCEPT ![t].pc = "done", ![t].outcome = "returned"])

SignoutStart(t) ==
  /\ Idle(t)
  /\ opsStarted' = opsStarted + 1
  /\ IF currentSession # None
     THEN /\ inflight' = inflight \cup {Call(t, "signout", currentSession, "", "signout")}
          /\ task' = [task EXCEPT ![t] =
               [IdleTask EXCEPT !.op = "signout", !.pc = "wait", !.step = "signout"]]
          /\ UNCHANGED sinceSignout
     ELSE /\ task' = [task EXCEPT ![t] =
               [IdleTask EXCEPT !.op = "signout", !.pc = "done", !.res = "true",
                                !.outcome = "returned"]]
          /\ sinceSignout' = "done"
          /\ UNCHANGED inflight
  /\ UNCHANGED <<auth, view, initialized, pubky, constructed, currentSession, nextHandle,
                 revoked, store, dialogOpen, retired>>

\* Session.signout settles; an error is caught; the field is cleared. When
\* the store's logout awaits the call, it runs on to its end
SignoutSettled(c, ok) ==
  /\ c \in inflight /\ c.call = "signout"
  /\ inflight' = inflight \ {c}
  /\ revoked' = IF ok THEN revoked \cup {c.sess} ELSE revoked
  /\ currentSession' = SessionAfterSignout(currentSession, ok)
  /\ retired' = Retire(currentSession) \cup {c.sess}
  /\ sinceSignout' = IF ok THEN "done" ELSE "failed"
  /\ LET settled == [task EXCEPT ![c.t].res = IF ok THEN "true" ELSE "false"]
     IN IF task[c.t].op = "logout"
        THEN LogoutClear(c.t, settled)
        ELSE /\ task' = [settled EXCEPT ![c.t].pc = "done",
                                        ![c.t].outcome = "returned"]
             /\ UNCHANGED <<auth, dialogOpen>>
  /\ UNCHANGED <<view, initialized, pubky, constructed, nextHandle, store, opsStarted>>

\* =================================================== write services =====
\* `if (!blobSuccess)`, `if (!metadataSuccess)`, `if (!success)`
BlobFailedNever(res) == FALSE
BlobFailed(res) == res = "false"

RecordFailedNever(res) == FALSE
RecordFailed(res) == res = "false"

\* uploadImage resumes after `await client.put(blobPath, ...)`
BlobResolvedNoAwait(tk) == tk.step = "blob" /\ tk.pc \in {"wait", "ret"}
BlobResolved(tk) == tk.step = "blob" /\ tk.pc = "ret"

\* the storage calls made by the catch block of uploadImage: none
CatchCallsRollback(t) == {Call(t, "delete", currentSession, BlobPath, "rollback")}
CatchCalls(t) == {}

\* the write service ends by throwing e (logError, then throw appError)
Thrown(tk, e) == [tk EXCEPT !.pc = "done", !.outcome = "thrown", !.err = e]

\* formData.name as the form passes it: CalendarModal trims it
FormDataName(tk) == IF tk.form = "CalendarModal" THEN Trim(tk.name) ELSE tk.name

\* the image of the record: `imageUri || null`, where imageUri is the URI
\* uploadImage returned, else existingImageUri (undefined in createCalendar)
RecordImageDropped(tk) == IF tk.img THEN "newImage" ELSE "null"
RecordImage(tk) == IF tk.img THEN "newImage" ELSE tk.existing

\* build the record and put it: the constructor throws on invalid form data,
\* and the outer catch wraps what is not an AppError
PutRecord(t, base) ==
  IF base.valid
  THEN FacadeWrite(t, "putBytes", RecordPath(base.op), "record",
                   [base EXCEPT !.rec = [name |-> Trim(FormDataName(base)),
                                         image |-> RecordImage(base)]])
  ELSE /\ task' = [task EXCEPT ![t] = Thrown(base, WrapError(base.op))]
       /\ inflight' = inflight

\* `if (formData.imageFile)`: the upload runs only for a chosen file
UploadsImageAlways(img) == TRUE
UploadsImage(img) == img

\* a write service up to its first await
ServiceEnter(t, base) ==
  IF UploadsImage(base.img)
  THEN /\ task' = [task EXCEPT ![t] = [base EXCEPT !.pc = "reading"]]
       /\ inflight' = inflight
  ELSE PutRecord(t, base)

\* createCalendar / updateCalendar / createEvent up to their first await
WriteStart(t, op, img, valid) ==
  /\ Idle(t)
  /\ opsStarted' = opsStarted + 1
  /\ ServiceEnter(t, [IdleTask EXCEPT !.op = op, !.img = img, !.valid = valid,
                        !.id = IF op = "updateCalendar" THEN <<>>
                               ELSE generateTimestampId(33)])
  /\ UNCHANGED <<auth, view, initialized, pubky, constructed, currentSession, nextHandle,
                 revoked, store, dialogOpen, retired, sinceSignout>>

\* uploadImage after `await file.arrayBuffer()`: put the blob
UploadBlob(t) ==
  /\ task[t].op \in WriteOps /\ task[t].pc = "reading"
  /\ FacadeWrite(t, "putBytes", BlobPath, "blob", task[t])
  /\ UNCHANGED <<auth, view, initialized, pubky, constructed, currentSession, nextHandle,
                 revoked, store, dialogOpen, opsStarted, retired, sinceSignout>>

\* reading the file or building the blob throws: the catch of uploadImage
UploadReadFail(t) ==
  /\ task[t].op \in WriteOps /\ task[t].pc = "reading"
  /\ task' = [task EXCEPT ![t] = Thrown(task[t], UploadError)]
  /\ inflight' = inflight \cup CatchCalls(t)
  /\ UNCHANGED <<auth, view, initialized, pubky, constructed, currentSession, nextHandle,
                 revoked, store, dialogOpen, opsStarted, retired, sinceSignout>>

\* uploadImage after the blob put: abort, or put the file metadata
BlobReturned(t) ==
  /\ task[t].op \in WriteOps /\ BlobResolved(task[t])
  /\ LET tk == [task[t] EXCEPT !.putFailed = (task[t].res = "false"),
                               !.blobOk = (task[t].res = "true")] IN
     IF BlobFailed(tk.res)
     THEN /\ task' = [task EXCEPT ![t] = Thrown(tk, UploadError)]
          /\ inflight' = inflight \cup CatchCalls(t)
     ELSE FacadeWrite(t, "putBytes", "/pub/pubky.app/files/<fileId>", "meta",
                      [tk EXCEPT !.metaIssued = TRUE])
  /\ UNCHANGED <<auth, view, initialized, pubky, constructed, currentSession, nextHandle,
                 revoked, store, dialogOpen, opsStarted, retired, sinceSignout>>

\* uploadImage after the metadata put: abort, or return the file URI to the
\* write service, which builds and puts the record
MetaReturned(t) ==
  /\ task[t].op \in WriteOps /\ task[t].pc = "ret" /\ task[t].step = "meta"
  /\ LET tk == [task[t] EXCEPT !.putFailed = (task[t].res = "false")] IN
     IF tk.res = "false"
     THEN /\ task' = [task EXCEPT ![t] = Thrown(tk, UploadError)]
          /\ inflight' = inflight \cup CatchCalls(t)
     ELSE PutRecord(t, tk)
  /\ UNCHANGED <<auth, view, initialized, pubky, constructed, currentSession, nextHandle,
                 revoked, store, dialogOpen, opsStarted, retired, sinceSignout>>

\* the write service after the record put: throw, or return the URI
RecordReturned(t) ==
  /\ task[t].op \in WriteOps /\ task[t].pc = "ret" /\ task[t].step = "record"
  /\ LET tk == [task[t] EXCEPT !.putFailed = (task[t].res = "false")] IN
     task' = [task EXCEPT ![t] =
       IF RecordFailed(tk.res)
       THEN Thrown(tk, RecordError(tk.op))
       ELSE [tk EXCEPT !.pc = "done", !.outcome = "returned"]]
  /\ UNCHANGED <<auth, view, initialized, pubky, constructed, currentSession, nextHandle,
                 revoked, store, inflight, dialogOpen, opsStarted, retired,
                 sinceSignout>>

\* deleteCalendar / deleteEvent up to the await of client.delete
DeleteStart(t, op) ==
  /\ Idle(t)
  /\ opsStarted' = opsStarted + 1
  /\ FacadeWrite(t, "delete",
                 IF op = "deleteEvent" THEN EventPath ELSE CalendarPath,
                 "delete", [IdleTask EXCEPT !.op = op])
  /\ UNCHANGED <<auth, view, initialized, pubky, constructed, currentSession, nextHandle,
                 revoked, store, dialogOpen, retired, sinceSignout>>

\* deleteCalendar / deleteEvent return the boolean of client.delete
DeleteReturned(t) ==
  /\ task[t].op \in DeleteOps /\ task[t].pc = "ret"
  /\ task' = [task EXCEPT ![t].pc = "done", ![t].outcome = "returned"]
  /\ UNCHANGED <<auth, view, initialized, pubky, constructed, currentSession, nextHandle,
                 revoked, store, inflight, dialogOpen, opsStarted, retired,
                 sinceSignout>>

\* ============================================================ forms =====
Forms == {"CalendarModal", "CalendarFormModal"}

\* a calendar form opens (a modal dialog: one at a time), in edit mode with
\* the calendar's data (prev is its image_uri); name is what the user leaves
\* in the name field
FormOpen(t, form, mode, name, prev) ==
  /\ Idle(t)
  /\ \A u \in Tasks : task[u].op \notin Forms /\ task[u].form = "none"
  /\ mode = "create" => prev = "null"
  /\ opsStarted' = opsStarted + 1
  /\ task' = [task EXCEPT ![t] =
       [IdleTask EXCEPT !.op = form, !.pc = "editing", !.mode = mode,
                        !.name = name, !.prev = prev]]
  /\ UNCHANGED <<auth, view, initialized, pubky, constructed, currentSession, nextHandle,
                 revoked, store, inflight, dialogOpen, retired, sinceSignout>>

\* handleImageChange / ImageUpload onChange: a file is chosen
FormImageChange(t) ==
  /\ task[t].op \in Forms /\ task[t].pc = "editing"
  /\ task' = [task EXCEPT ![t].img = TRUE, ![t].remove = FALSE]
  /\ UNCHANGED <<auth, view, initialized, pubky, constructed, currentSession, nextHandle,
                 revoked, store, inflight, dialogOpen, opsStarted, retired,
                 sinceSignout>>

\* handleRemoveImage: the file is dropped, and CalendarModal flags the
\* removal when the calendar had an image
FormRemoveImage(t) ==
  /\ task[t].op \in Forms /\ task[t].pc = "editing"
  /\ task' = [task EXCEPT ![t].img = FALSE,
                ![t].remove = (task[t].op = "CalendarModal"
                                 /\ task[t].prev # "null")]
  /\ UNCHANGED <<auth, view, initialized, pubky, constructed, currentSession, nextHandle,
                 revoked, store, inflight, dialogOpen, opsStarted, retired,
                 sinceSignout>>

\* CalendarModal: `removeExistingImage ? null : calendar.image_uri`
ImageToKeepAlways(remove, prev) == prev
ImageToKeep(remove, prev) == IF remove THEN "null" ELSE prev

\* the existingImageUri argument of updateCalendar
ExistingImageArg(tk) ==
  CASE tk.mode # "edit" -> "null"
    [] tk.op = "CalendarModal" -> ImageToKeep(tk.remove, tk.prev)
    [] OTHER -> tk.prev

\* handleSubmit: a blank name is refused, else the form calls createCalendar
\* or updateCalendar, which run up to their first await
FormSubmit(t, now, valid) ==
  /\ task[t].op \in Forms /\ task[t].pc = "editing"
  /\ Trim(task[t].name) # <<>>
  /\ ServiceEnter(t,
       [task[t] EXCEPT
          !.op = IF task[t].mode = "edit" THEN "updateCalendar" ELSE "createCalendar",
          !.form = task[t].op, !.valid = valid,
          !.existing = ExistingImageArg(task[t]),
          !.id = IF task[t].mode = "edit" THEN <<>> ELSE generateTimestampId(now)])
  /\ UNCHANGED <<auth, view, initialized, pubky, constructed, currentSession, nextHandle,
                 revoked, store, dialogOpen, opsStarted, retired, sinceSignout>>

\* CalendarHeader.handleDelete up to the await of deleteCalendar, which runs
\* up to `await client.delete(calendarUri)`
HeaderDelete(t) ==
  /\ Idle(t)
  /\ \A u \in Tasks : task[u].op \notin Forms /\ task[u].form = "none"
  /\ opsStarted' = opsStarted + 1
  /\ FacadeWrite(t, "delete", CalendarPath, "delete",
                 [IdleTask EXCEPT !.op = "deleteCalendar", !.form = "CalendarHeader"])
  /\ UNCHANGED <<auth, view, initialized, pubky, constructed, currentSession, nextHandle,
                 revoked, store, dialogOpen, retired, sinceSignout>>

\* handleDelete: `if (!success) throw new AppError(...)`
DeleteFailedNever(res) == FALSE
DeleteFailed(res) == res # "true"

\* the handler resumes after its await. handleSubmit of both forms: the
\* success callback (CalendarFormModal shows a success toast first), or the
\* catch with toast.error. handleDelete: a false result is thrown into the
\* catch, which shows toast.error, else onCalendarDeleted
HandlerReturned(t) ==
  /\ task[t].form # "none" /\ task[t].pc = "done" /\ task[t].shown = "none"
  /\ LET failed == IF task[t].form = "CalendarHeader"
                   THEN DeleteFailed(task[t].res)
                   ELSE task[t].outcome = "thrown"
     IN task' = [task EXCEPT
          ![t].shown = CASE failed -> "error"
                         [] task[t].form = "CalendarFormModal" -> "success"
                         [] OTHER -> "nothing",
          ![t].onSuccess = ~failed]
  /\ UNCHANGED <<auth, view, initialized, pubky, constructed, currentSession, nextHandle,
                 revoked, store, inflight, dialogOpen, opsStarted, retired,
                 sinceSignout>>

\* ====================================================== addresses =======
\* what a service passes to the facade for the resource pubky://<owner><path>:
\* fetch* the public address, updateCalendar (called with the signed-in
\* user's publicKey) and delete* the relative path
ServiceArg(op, owner, path, publicKey) ==
  CASE op \in ReadOps \cup {ListOp} ->
         ReplaceFirst(UriOf(owner, path), Scheme, AddressPrefix)
    [] op = "updateCalendar" -> SplitSecond(UriOf(owner, path), publicKey)
    [] OTHER -> MatchPath(UriOf(owner, path))

\* a service converts the URI it was given, before its runtime call
ConvertUri(t, op, owner, path, publicKey) ==
  /\ Idle(t)
  /\ \A u \in Tasks : task[u].op = "idle"
  /\ opsStarted' = opsStarted + 1
  /\ task' = [task EXCEPT ![t] =
       [IdleTask EXCEPT !.op = op, !.pc = "done", !.outcome = "returned",
                        !.owner = owner, !.path = path, !.caller = publicKey,
                        !.arg = ServiceArg(op, owner, path, publicKey)]]
  /\ UNCHANGED <<auth, view, initialized, pubky, constructed, currentSession, nextHandle,
                 revoked, store, inflight, dialogOpen, retired, sinceSignout>>

\* a component calls a URI helper; the typed helpers get strings only
CallHelper(t, fn, in) ==
  /\ Idle(t)
  /\ \A u \in Tasks : task[u].op = "idle"
  /\ fn \in {"parseCalendarUri", "getCalendarPageUrl"} => in.kind = "string"
  /\ opsStarted' = opsStarted + 1
  /\ task' = [task EXCEPT ![t] =
       [IdleTask EXCEPT !.op = fn, !.pc = "done", !.outcome = "returned",
                        !.input = in, !.result = HelperResult(fn, in)]]
  /\ UNCHANGED <<auth, view, initialized, pubky, constructed, currentSession, nextHandle,
                 revoked, store, inflight, dialogOpen, retired, sinceSignout>>

\* ========================================================== useProfile ===
\* `${pk}-${Date.now()}`
RequestId(pk, now) == <<pk, now>>

\* `currentRequestRef.current === requestId && mountedRef.current`
StillCurrent(v, id) == v.current = id /\ v.mounted

\* fetchProfile up to `await getResolvedProfile(pk)` (the session cache is off)
FetchProfileStart(t, v, pk) ==
  LET r == [pk |-> pk, id |-> RequestId(pk, v.clock), n |-> v.issued + 1] IN
  /\ Idle(t)
  /\ opsStarted' = opsStarted + 1
  /\ task' = [task EXCEPT ![t] =
       [IdleTask EXCEPT !.op = "fetchProfile", !.pc = "wait", !.req = r]]
  /\ inflight' = inflight \cup {Call(t, "getResolvedProfile", None, "", "profile")}
  /\ view' = [v EXCEPT !.current = r.id, !.issued = r.n, !.loading = TRUE,
                       !.error = FALSE]

\* the effect runs, on mount or when publicKey or an option changed: the
\* cleanup of the last run first, then mountedRef is set and the fetch starts
HookEffect(t, pk) ==
  /\ view.kind \in {"none", "useProfile"}
  /\ ~view.alive \/ view.mounted
  /\ FetchProfileStart(t,
       [view EXCEPT !.kind = "useProfile", !.key = pk, !.alive = TRUE,
                    !.mounted = TRUE, !.current = <<>>], pk)
  /\ UNCHANGED <<auth, initialized, pubky, constructed, currentSession,
                 nextHandle, revoked, store, dialogOpen, retired, sinceSignout>>

\* refetch(): `if (publicKey) await fetchProfile(publicKey)`
HookRefetch(t) ==
  /\ view.alive /\ view.mounted /\ view.key # "null"
  /\ FetchProfileStart(t, view, view.key)
  /\ UNCHANGED <<auth, initialized, pubky, constructed, currentSession,
                 nextHandle, revoked, store, dialogOpen, retired, sinceSignout>>

\* the component unmounts: the cleanup clears both refs
HookUnmount ==
  /\ view.alive /\ view.mounted
  /\ view' = [view EXCEPT !.mounted = FALSE, !.current = <<>>]
  /\ UNCHANGED <<auth, initialized, pubky, constructed, currentSession,
                 nextHandle, revoked, store, inflight, task, dialogOpen,
                 opsStarted, retired, sinceSignout>>

\* a millisecond passes
Tick ==
  /\ view.clock < MaxClock
  /\ view' = [view EXCEPT !.clock = @ + 1]
  /\ UNCHANGED <<auth, initialized, pubky, constructed, currentSession,
                 nextHandle, revoked, store, inflight, task, dialogOpen,
                 opsStarted, retired, sinceSignout>>

\* getResolvedProfile settles: a profile, null, or a rejection
ProfileSettled(c, r) ==
  /\ c \in inflight /\ c.call = "getResolvedProfile"
  /\ task[c.t].op = "fetchProfile"
  /\ inflight' = inflight \ {c}
  /\ task' = [task EXCEPT ![c.t].pc = "ret", ![c.t].res = r]
  /\ UNCHANGED <<auth, view, initialized, pubky, constructed, currentSession,
                 nextHandle, revoked, store, dialogOpen, opsStarted, retired,
                 sinceSignout>>

\* fetchProfile after the await: commit the result to the state if the
\* request is still the current one, else drop it
ProfileReturned(t) ==
  /\ task[t].op = "fetchProfile" /\ task[t].pc = "ret"
  /\ task' = [task EXCEPT ![t].pc = "done", ![t].outcome = "returned"]
  /\ view' =
       IF StillCurrent(view, task[t].req.id)
       THEN [view EXCEPT
               !.profile = IF task[t].res = "profile" THEN task[t].req.pk ELSE "null",
               !.error = (task[t].res # "profile"),
               !.loading = FALSE,
               !.commit = [n |-> task[t].req.n, latest |-> view.issued,
                           mounted |-> view.mounted]]
       ELSE view
  /\ UNCHANGED <<auth, initialized, pubky, constructed, currentSession,
                 nextHandle, revoked, store, inflight, dialogOpen, opsStarted,
                 retired, sinceSignout>>

\* ========================================================== page fetches ==
\* CalendarPage (loadCalendar), MyCalendarsPage (loadCalendars) and
\* useCalendarImage fetch in an effect keyed by their input
PageKinds == {"CalendarPage", "MyCalendarsPage", "useCalendarImage"}

\* the effect runs for a new key: the cleanup of useCalendarImage clears the
\* `mounted` flag of the last run's closure, the pages have no cleanup; then
\* the fetch for the new key starts
PageEffect(t, kind, key) ==
  /\ view.kind \in {"none", kind} /\ kind \in PageKinds
  /\ view.key # key
  /\ Idle(t)
  /\ opsStarted' = opsStarted + 1
  /\ task' = [u \in Tasks |->
       IF u = t
       THEN [IdleTask EXCEPT !.op = kind, !.pc = "wait",
               !.req = [pk |-> key, id |-> <<>>, n |-> view.issued + 1]]
       ELSE IF task[u].op = "useCalendarImage"
       THEN [task[u] EXCEPT !.cancelled = TRUE]
       ELSE task[u]]
  /\ inflight' = inflight \cup {Call(t, "pageFetch", None, "", "fetch")}
  /\ view' = [view EXCEPT !.kind = kind, !.key = key, !.alive = TRUE,
                          !.issued = @ + 1, !.loading = TRUE, !.error = FALSE]
  /\ UNCHANGED <<auth, initialized, pubky, constructed, currentSession,
                 nextHandle, revoked, store, dialogOpen, retired, sinceSignout>>

\* the fetch of the page settles: data, or a rejection
PageSettled(c, r) ==
  /\ c \in inflight /\ c.call = "pageFetch"
  /\ inflight' = inflight \ {c}
  /\ task' = [task EXCEPT ![c.t].pc = "ret", ![c.t].res = r]
  /\ UNCHANGED <<auth, view, initialized, pubky, constructed, currentSession,
                 nextHandle, revoked, store, dialogOpen, opsStarted, retired,
                 sinceSignout>>

\* useCalendarImage tests `if (mounted)` before it sets state; loadCalendar
\* and loadCalendars set state with no test
CommitAllowed(tk) == tk.op = "useCalendarImage" => ~tk.cancelled

\* after the await: the result goes into the displayed state
PageReturned(t) ==
  /\ task[t].op \in PageKinds /\ task[t].pc = "ret"
  /\ task' = [task EXCEPT ![t].pc = "done", ![t].outcome = "returned"]
  /\ view' =
       IF CommitAllowed(task[t])
       THEN [view EXCEPT
               !.profile = IF task[t].res = "data" THEN task[t].req.pk ELSE "null",
               !.error = (task[t].res # "data"),
               !.loading = FALSE,
               !.commit = [n |-> task[t].req.n, latest |-> view.issued,
                           mounted |-> view.mounted]]
       ELSE view
  /\ UNCHANGED <<auth, initialized, pubky, constructed, currentSession,
                 nextHandle, revoked, store, inflight, dialogOpen, opsStarted,
                 retired, sinceSignout>>

\* ==================================================== fetch services ===
\* fetchCalendar, fetchEvent, fetchCalendarMetadata up to `await client.get`
FetchStart(t, op) ==
  /\ op \in ReadOps
  /\ EnsureEnter(t, op)
  /\ UNCHANGED <<auth, view, initialized, pubky, constructed, currentSession, nextHandle,
                 revoked, store, inflight, dialogOpen, retired, sinceSignout>>

\* what the catch of a one-resource fetch does after logError: the services
\* of calendar-service return null, fetchCalendarMetadata throws an AppError
CatchRethrows(op) == op = "fetchCalendarMetadata"

\* after `await client.get`: null when nothing came back, else JSON.parse and
\* fromJson inside the try; a throw (of get or of the parse) lands in the catch
FetchReturned(t) ==
  /\ task[t].op \in ReadOps /\ task[t].pc = "ret"
  /\ task' = [task EXCEPT ![t] =
       CASE task[t].res = "null" ->
              [@ EXCEPT !.pc = "done", !.outcome = "returned", !.val = "null"]
         [] task[t].res = "bytes" ->
              [@ EXCEPT !.pc = "done", !.outcome = "returned", !.val = "object"]
         [] OTHER ->
              IF CatchRethrows(task[t].op)
              THEN [@ EXCEPT !.pc = "done", !.logs = @ + 1, !.outcome = "thrown",
                             !.err = FetchError(task[t].op)]
              ELSE [@ EXCEPT !.pc = "done", !.logs = @ + 1,
                             !.outcome = "returned", !.val = "null"]]
  /\ UNCHANGED <<auth, view, initialized, pubky, constructed, currentSession, nextHandle,
                 revoked, store, inflight, dialogOpen, opsStarted, retired,
                 sinceSignout>>

\* fetchUserCalendars up to `await client.list(baseAddress)`
FetchListStart(t) ==
  /\ EnsureEnter(t, ListOp)
  /\ UNCHANGED <<auth, view, initialized, pubky, constructed, currentSession, nextHandle,
                 revoked, store, inflight, dialogOpen, retired, sinceSignout>>

\* the try/catch around one listed item keeps a parse failure inside the loop
ParseFailureAbortsAlways(res) == res = "garbage"
ParseFailureAborts(res) == FALSE

\* the loop of fetchUserCalendars reaches item i: `await client.get(address)`
\* of an initialised facade issues getBytes
ItemGet(t, tk, i) ==
  /\ inflight' = inflight \cup {Call(t, "getBytes", None, CalendarPath, "get")}
  /\ task' = [task EXCEPT ![t] = [tk EXCEPT !.pc = "wait", !.step = "get",
                                            !.idx = i]]

\* after `await client.list`: the outer catch wraps a throw, no item returns
\* [], else the loop starts
FetchListReturned(t) ==
  /\ task[t].op = ListOp /\ task[t].pc = "ret" /\ task[t].step = "list"
  /\ CASE task[t].res = "threw" ->
            /\ task' = [task EXCEPT ![t].pc = "done", ![t].logs = @ + 1,
                                    ![t].outcome = "thrown",
                                    ![t].err = FetchError(ListOp)]
            /\ inflight' = inflight
       [] task[t].res = "empty" ->
            /\ task' = [task EXCEPT ![t].pc = "done", ![t].outcome = "returned",
                                    ![t].val = "list"]
            /\ inflight' = inflight
       [] OTHER -> ItemGet(t, task[t], 1)
  /\ UNCHANGED <<auth, view, initialized, pubky, constructed, currentSession, nextHandle,
                 revoked, store, dialogOpen, opsStarted, retired, sinceSignout>>

\* after `await client.get` of one item: `if (response)` parses and pushes,
\* the item's catch logs "Failed to parse calendar"; then the next item or
\* `return calendars`
FetchItemReturned(t) ==
  /\ task[t].op = ListOp /\ task[t].pc = "ret" /\ task[t].step = "get"
  /\ LET r == task[t].res
         tk == [task[t] EXCEPT
                  !.got = IF r = "bytes" THEN @ + 1 ELSE @,
                  !.logs = IF r = "garbage" THEN @ + 1 ELSE @,
                  !.good = IF task[t].rt = "bytes" THEN @ + 1 ELSE @,
                  !.bad = IF task[t].rt = "garbage" THEN @ + 1 ELSE @]
     IN IF ParseFailureAborts(r)
        THEN /\ task' = [task EXCEPT ![t] =
                  [tk EXCEPT !.pc = "done", !.logs = @ + 1,
                             !.outcome = "thrown", !.err = FetchError(ListOp)]]
             /\ inflight' = inflight
        ELSE IF tk.idx < tk.items
        THEN ItemGet(t, tk, tk.idx + 1)
        ELSE /\ task' = [task EXCEPT ![t] =
                  [tk EXCEPT !.pc = "done", !.outcome = "returned",
                             !.val = "list"]]
             /\ inflight' = inflight
  /\ UNCHANGED <<auth, view, initialized, pubky, constructed, currentSession, nextHandle,
                 revoked, store, dialogOpen, opsStarted, retired, sinceSignout>>

\* the caller has consumed the result of a finished call; the caller of a
\* form's service is the form's handler
Finish(t) ==
  /\ task[t].pc = "done"
  /\ task[t].form # "none" => task[t].shown # "none"
  /\ task' = [task EXCEPT ![t] = IdleTask]
  /\ UNCHANGED <<auth, view, initialized, pubky, constructed, currentSession, nextHandle,
                 revoked, store, inflight, dialogOpen, opsStarted, retired,
                 sinceSignout>>

\* ====================================================== auth dialog =====
\* the dialog opens: the effect starts run(), which calls startAuthFlow
OpenDialog(t) ==
  /\ ~dialogOpen
  /\ EnsureEnter(t, "authRun")
  /\ dialogOpen' = TRUE
  /\ UNCHANGED <<auth, view, initialized, pubky, constructed, currentSession, nextHandle,
                 revoked, store, inflight, retired, sinceSignout>>

\* startAuthFlow returns the flow of the runtime
AuthFlowCreated(t) ==
  /\ task[t].op = "authRun" /\ task[t].pc = "ready"
  /\ task' = [task EXCEPT ![t].pc = "qr"]
  /\ UNCHANGED <<auth, view, initialized, pubky, constructed, currentSession, nextHandle,
                 revoked, store, inflight, dialogOpen, opsStarted, retired,
                 sinceSignout>>

\* run() after the QR code is drawn: `if (cancelled) return`, else
\* `await flow.awaitApproval()`
AuthQrDone(t) ==
  /\ task[t].op = "authRun" /\ task[t].pc = "qr"
  /\ IF task[t].cancelled
     THEN /\ task' = [task EXCEPT ![t].pc = "done", ![t].outcome = "returned"]
          /\ inflight' = inflight
     ELSE /\ task' = [task EXCEPT ![t].pc = "wait", ![t].step = "approval"]
          /\ inflight' = inflight \cup {Call(t, "awaitApproval", None, "", "approval")}
  /\ UNCHANGED <<auth, view, initialized, pubky, constructed, currentSession, nextHandle,
                 revoked, store, dialogOpen, opsStarted, retired, sinceSignout>>

\* the guard of run() after awaitApproval: `if (session && !cancelled)`
FlowAcceptedAlways(cancelled) == TRUE
FlowAccepted(cancelled) == ~cancelled

\* the remote approver completes the handshake: awaitApproval resolves
\* with a Session; `if (session && !cancelled) client.setSession(session)`
Approve(c) ==
  /\ c \in inflight /\ c.call = "awaitApproval"
  /\ nextHandle <= MaxSessions
  /\ inflight' = inflight \ {c}
  /\ nextHandle' = nextHandle + 1
  /\ IF FlowAccepted(task[c.t].cancelled)
     THEN /\ currentSession' = nextHandle
          /\ retired' = Retire(currentSession)
          /\ sinceSignout' = "no"
          /\ task' = [task EXCEPT ![c.t].pc = "profile", ![c.t].res = "true"]
     ELSE /\ task' = [task EXCEPT ![c.t].pc = "done", ![c.t].res = "true",
                                  ![c.t].outcome = "returned"]
          /\ UNCHANGED <<currentSession, retired, sinceSignout>>
  /\ UNCHANGED <<auth, view, initialized, pubky, constructed, revoked, store, dialogOpen,
                 opsStarted>>

\* the runtime rejects awaitApproval: the catch shows a toast
FlowRejected(c) ==
  /\ c \in inflight /\ c.call = "awaitApproval"
  /\ inflight' = inflight \ {c}
  /\ task' = [task EXCEPT ![c.t].pc = "done", ![c.t].res = "false",
                          ![c.t].outcome = "returned"]
  /\ UNCHANGED <<auth, view, initialized, pubky, constructed, currentSession, nextHandle,
                 revoked, store, dialogOpen, opsStarted, retired, sinceSignout>>

\* the store's setUser: `set({ user, isAuthenticated: Boolean(user) })`
SetUser(user) == [user |-> user, isAuthenticated |-> user # "null"]

\* run() after the profile lookup resolved: setUser with the key of the
\* Session, setAuthDialogOpen(false); the effect's cleanup sets cancelled
AuthProfileDone(t) ==
  /\ task[t].op = "authRun" /\ task[t].pc = "profile"
  /\ auth' = SetUser(SessionKey)
  /\ dialogOpen' = FALSE
  /\ task' = CancelRuns([task EXCEPT ![t].pc = "done", ![t].outcome = "returned"])
  /\ UNCHANGED <<view, initialized, pubky, constructed, currentSession, nextHandle,
                 revoked, store, inflight, opsStarted, retired, sinceSignout>>

\* the profile lookup rejects (getResolvedProfile rethrows everything but
\* NEXUS_NOT_FOUND): the catch of run() shows a toast; setUser is not
\* reached and the dialog stays as it is
AuthProfileFailed(t) ==
  /\ task[t].op = "authRun" /\ task[t].pc = "profile"
  /\ task' = [task EXCEPT ![t].pc = "done", ![t].res = "false",
                          ![t].outcome = "returned"]
  /\ UNCHANGED <<auth, view, initialized, pubky, constructed, currentSession, nextHandle,
                 revoked, store, inflight, dialogOpen, opsStarted, retired,
                 sinceSignout>>

\* the user closes the dialog: the effect's cleanup sets cancelled; the
\* flow itself is left as it is
CloseDialog ==
  /\ dialogOpen
  /\ dialogOpen' = FALSE
  /\ task' = CancelRuns(task)
  /\ UNCHANGED <<auth, view, initialized, pubky, constructed, currentSession, nextHandle,
                 revoked, store, inflight, opsStarted, retired, sinceSignout>>

\* ======================================================= auth store =====
\* `PublicKey.from(key)` returns a key, or throws for text that is none
IsPublicKey(key) == key = SessionKey

\* TopNav renders the login button while `!isAuthenticated`
LoginClick(t) ==
  /\ ~auth.isAuthenticated
  /\ OpenDialog(t)

\* TopNav's logout button, rendered while isAuthenticated: logout() up to
\* `await import("@synonymdev/pubky")` inside `if (currentUser?.publicKey)`,
\* or to its end when no user is set
LogoutStart(t) ==
  /\ auth.isAuthenticated
  /\ Idle(t)
  /\ opsStarted' = opsStarted + 1
  /\ LET begun == [IdleTask EXCEPT !.op = "logout", !.step = "signout",
                                   !.user = auth.user]
     IN IF auth.user # "null"
        THEN /\ task' = [task EXCEPT ![t] = [begun EXCEPT !.pc = "import"]]
             /\ UNCHANGED <<auth, dialogOpen>>
        ELSE LogoutClear(t, [task EXCEPT ![t] = begun])
  /\ UNCHANGED <<view, initialized, pubky, constructed, currentSession, nextHandle,
                 revoked, store, inflight, retired, sinceSignout>>

\* logout after the import: `PublicKey.from(currentUser.publicKey)`, then
\* `await client.signout(pk)`; a throw of either lands in the catch, which
\* logs it, client.signout is not reached, and logout runs on to its end;
\* so it does when the facade holds no Session. The import can only reject
\* while the module is not loaded yet: once the facade has constructed its
\* entry point, `import` resolves from the module cache
LogoutImported(t, imported) ==
  /\ task[t].op = "logout" /\ task[t].pc = "import"
  /\ imported \/ ~IsInitialized(initialized, pubky)
  /\ IF imported /\ IsPublicKey(task[t].user)
     THEN IF currentSession # None
          THEN /\ inflight' = inflight \cup
                     {Call(t, "signout", currentSession, "", "signout")}
               /\ task' = [task EXCEPT ![t].pc = "wait"]
               /\ UNCHANGED <<auth, dialogOpen, sinceSignout>>
          ELSE /\ LogoutClear(t, [task EXCEPT ![t].res = "true"])
               /\ sinceSignout' = "done"
               /\ UNCHANGED inflight
     ELSE /\ LogoutClear(t, [task EXCEPT ![t].res = "threw"])
          /\ UNCHANGED <<inflight, sinceSignout>>
  /\ UNCHANGED <<view, initialized, pubky, constructed, currentSession, nextHandle,
                 revoked, store, opsStarted, retired>>

\* the page is loaded anew: the module state of the facade starts over,
\* pending calls are gone; the persisted part of the auth store (user and
\* isAuthenticated, under "pubky-ical-user") is restored
NewPage(tasks) ==
  /\ initialized' = FALSE
  /\ pubky' = None
  /\ constructed' = 0
  /\ currentSession' = None
  /\ retired' = Retire(currentSession)
  /\ inflight' = {}
  /\ task' = tasks
  /\ dialogOpen' = FALSE
  /\ view' = NoView
  /\ UNCHANGED <<auth, nextHandle, revoked, store, sinceSignout>>

Reload ==
  /\ NewPage([t \in Tasks |-> IdleTask])
  /\ UNCHANGED opsStarted

\* the browser opens /auth/callback with `token` and a key in its URL (the
\* key of the user, or text that is no key): the page's effect starts
\* getResolvedProfile(publicKey)
CallbackPage(key) ==
  /\ opsStarted < MaxOps
  /\ opsStarted' = opsStarted + 1
  /\ NewPage([t \in Tasks |->
       IF t = 1
       THEN [IdleTask EXCEPT !.op = "authCallback", !.pc = "profile", !.user = key]
       ELSE IdleTask])

\* the callback page's lookup settles: `.then` calls setUser with the key of
\* the URL; a rejection skips it
CallbackProfileDone(t, found) ==
  /\ task[t].op = "authCallback" /\ task[t].pc = "profile"
  /\ auth' = IF found THEN SetUser(task[t].user) ELSE auth
  /\ task' = [task EXCEPT ![t].pc = "done", ![t].outcome = "returned",
                          ![t].res = IF found THEN "true" ELSE "false"]
  /\ UNCHANGED <<view, initialized, pubky, constructed, currentSession, nextHandle,
                 revoked, store, inflight, dialogOpen, opsStarted, retired,
                 sinceSignout>>

\* ============================================================= next =====
\* segments of the repository's own code, run by the event loop
TaskStep(t) ==
  \/ Construct(t)
  \/ ConstructFail(t)
  \/ \E path \in {CalendarPath, EventPath} : GetCall(t, path)
  \/ \E relative \in BOOLEAN : ListCall(t, relative)
  \/ SignupCall(t)
  \/ SigninCall(t)
  \/ UploadBlob(t)
  \/ UploadReadFail(t)
  \/ BlobReturned(t)
  \/ MetaReturned(t)
  \/ RecordReturned(t)
  \/ DeleteReturned(t)
  \/ AuthFlowCreated(t)
  \/ AuthQrDone(t)
  \/ AuthProfileDone(t)
  \/ AuthProfileFailed(t)
  \/ Finish(t)

\* calls made by the user interface
StartStep(t) ==
  \/ StartGet(t)
  \/ StartList(t)
  \/ StartSignup(t)
  \/ StartSignin(t)
  \/ SignoutStart(t)
  \/ \E op \in WriteOps, img \in BOOLEAN, valid \in BOOLEAN : WriteStart(t, op, img, valid)
  \/ \E op \in DeleteOps : DeleteStart(t, op)
  \/ OpenDialog(t)

\* the storage runtime settles a storage call
StorageStep(c) ==
  \/ \E ok \in BOOLEAN : PutSettled(c, ok)
  \/ \E ok \in BOOLEAN : DeleteSettled(c, ok)
  \/ \E rt \in {"bytes", "garbage", "absent", "error"} : GetSettled(c, rt)
  \/ \E n \in 0..MaxItems, ok \in BOOLEAN : ListSettled(c, n, ok)
  \/ \E ok \in BOOLEAN : SignupSettled(c, ok)
  \/ \E r \in {"session", "undefined", "throw"} : SigninSettled(c, r)
  \/ \E ok \in BOOLEAN : SignoutSettled(c, ok)

Next ==
  \/ \E t \in Tasks : StartStep(t)
  \/ \E t \in Tasks : TaskStep(t)
  \/ \E c \in inflight : StorageStep(c)
  \/ \E c \in inflight : Approve(c)
  \/ \E c \in inflight : FlowRejected(c)
  \/ CloseDialog

Spec == Init /\ [][Next]_vars

\* ---- the read path: pages that fetch public data, no session involved ----
ReadNext ==
  \/ \E t \in Tasks :
       \/ StartGet(t)
       \/ StartList(t)
       \/ \E op \in ReadOps : FetchStart(t, op)
       \/ FetchListStart(t)
  \/ \E t \in Tasks :
       \/ Construct(t)
       \/ ConstructFail(t)
       \/ \E path \in {CalendarPath, EventPath} : GetCall(t, path)
       \/ \E relative \in BOOLEAN : ListCall(t, relative)
       \/ FetchReturned(t)
       \/ FetchListReturned(t)
       \/ FetchItemReturned(t)
       \/ Finish(t)
  \/ \E c \in inflight :
       \/ \E rt \in {"bytes", "garbage", "absent", "error"} : GetSettled(c, rt)
       \/ \E n \in 0..MaxItems, ok \in BOOLEAN : ListSettled(c, n, ok)

ReadSpec == Init /\ [][ReadNext]_vars

\* ---- the calendar forms: sign in, fill a form in, submit it ---------------
FormNext ==
  \/ \E t \in Tasks :
       \/ StartSignin(t)
       \/ HeaderDelete(t)
       \/ \E form \in Forms, mode \in {"create", "edit"},
             name \in NamesUpTo(MaxNameLen), prev \in {"null", "oldImage"} :
             FormOpen(t, form, mode, name, prev)
  \/ \E t \in Tasks :
       \/ Construct(t)
       \/ ConstructFail(t)
       \/ SigninCall(t)
       \/ FormImageChange(t)
       \/ FormRemoveImage(t)
       \/ \E now \in NowSamples, valid \in BOOLEAN : FormSubmit(t, now, valid)
       \/ UploadBlob(t)
       \/ UploadReadFail(t)
       \/ BlobReturned(t)
       \/ MetaReturned(t)
       \/ RecordReturned(t)
       \/ DeleteReturned(t)
       \/ HandlerReturned(t)
       \/ Finish(t)
  \/ \E c \in inflight :
       \/ \E ok \in BOOLEAN : PutSettled(c, ok)
       \/ \E ok \in BOOLEAN : DeleteSettled(c, ok)
       \/ \E r \in {"session", "undefined", "throw"} : SigninSettled(c, r)

FormSpec == Init /\ [][FormNext]_vars

\* ---- the conversions of resource URIs, for every owner and path ----------
UriNext ==
  \/ \E t \in Tasks, owner \in OwnerIds, path \in RecordPaths,
        op \in {"fetchCalendar", "fetchEvent", "fetchUserCalendars",
                "updateCalendar", "deleteCalendar", "deleteEvent"} :
        \* the caller: the owner, or a signed-in user with another key
        \E publicKey \in {owner, [i \in 1..OwnerLen |-> "p"]} :
           ConvertUri(t, op, owner, path, publicKey)
  \/ \E t \in Tasks : Finish(t)

UriSpec == Init /\ [][UriNext]_vars

\* ---- the URI helpers of the components, for every probe string -----------
HelperNext ==
  \/ \E t \in Tasks, in \in HelperInputs,
        fn \in {"extractFileId", "extractPublicKey", "parseCalendarUri",
                "getCalendarPageUrl"} : CallHelper(t, fn, in)
  \/ \E t \in Tasks : Finish(t)

HelperSpec == Init /\ [][HelperNext]_vars

\* ---- a component that uses useProfile ------------------------------------
HookNext ==
  \/ \E t \in Tasks, pk \in Keys : HookEffect(t, pk)
  \/ \E t \in Tasks : HookRefetch(t)
  \/ HookUnmount
  \/ Tick
  \/ \E c \in inflight, r \in {"profile", "null", "throw"} : ProfileSettled(c, r)
  \/ \E t \in Tasks : ProfileReturned(t)
  \/ \E t \in Tasks : Finish(t)

HookSpec == Init /\ [][HookNext]_vars

\* ---- a page or hook that fetches for its input key ------------------------
PageNext ==
  \/ \E t \in Tasks, kind \in PageKinds, key \in Keys : PageEffect(t, kind, key)
  \/ \E c \in inflight, r \in {"data", "throw"} : PageSettled(c, r)
  \/ \E t \in Tasks : PageReturned(t)
  \/ \E t \in Tasks : Finish(t)

PageSpec == Init /\ [][PageNext]_vars

\* ---- login and logout: the auth store, the dialog, the callback page ----
AuthNext ==
  \/ \E t \in Tasks :
       \/ LoginClick(t)
       \/ LogoutStart(t)
  \/ \E t \in Tasks :
       \/ Construct(t)
       \/ ConstructFail(t)
       \/ AuthFlowCreated(t)
       \/ AuthQrDone(t)
       \/ AuthProfileDone(t)
       \/ AuthProfileFailed(t)
       \/ \E imported \in BOOLEAN : LogoutImported(t, imported)
       \/ \E found \in BOOLEAN : CallbackProfileDone(t, found)
       \/ Finish(t)
  \/ \E c \in inflight :
       \/ Approve(c)
       \/ FlowRejected(c)
       \/ \E ok \in BOOLEAN : SignoutSettled(c, ok)
  \/ CloseDialog
  \/ Reload
  \/ \E key \in {SessionKey, "notakey"} : CallbackPage(key)

AuthSpec == Init /\ [][AuthNext]_vars

\* the fairness the event loop and the transport give: a runnable segment
\* of code runs, a storage call settles (by the transport's own timeout at
\* the latest); nothing obliges the relay or the approver to answer
LiveSpec ==
  /\ Init /\ [][Next]_vars
  /\ WF_vars(\E t \in Tasks : TaskStep(t))
  /\ WF_vars(\E c \in inflight : StorageStep(c))

\* =========================================================== claims =====
WriteSteps == {"blob", "meta", "record", "delete"}

\* the facade put / delete that task t last entered has got past its guard
Entered(t) == task[t].step \in WriteSteps /\ task[t].pc \in {"wait", "ret", "done"}

\* C1: a put or delete entered while the facade holds no Session returns
\* false and hands no call to the storage runtime.
WriteWithoutSessionRejected ==
  \A t \in Tasks :
    (Entered(t) /\ task[t].sessAtCall = None) =>
      /\ task[t].res = "false"
      /\ task[t].calls = 0
      /\ \A c \in inflight : c.t = t => c.call \notin {"putBytes", "delete"}

\* a write service has failed on the guard after a signout cleared the Session
WriteWithoutSessionSeen ==
  \E t \in Tasks :
    /\ task[t].op \in WriteOps /\ task[t].pc = "done"
    /\ task[t].sessAtCall = None /\ task[t].res = "false"
    /\ retired # {} /\ sinceSignout # "no"

\* C2: currentSession changes only in a step in which a signup, a signin or
\* an approved flow resumes successfully (to a Session) or in which a
\* signout resumes (to no Session); no other step changes it.
SessionWrittenOnlyByAuth ==
  [][currentSession' # currentSession =>
       \E t \in Tasks :
         /\ task[t].pc = "wait" /\ task'[t].pc # "wait"
         /\ IF currentSession' # None
            THEN task[t].op \in {"signup", "signin", "authRun"} /\ task'[t].res = "true"
            ELSE task[t].op = "signout"]_vars

\* a Session was installed and a signout has cleared it again
SessionInstalledAndCleared ==
  /\ currentSession = None /\ retired # {}
  /\ \E t \in Tasks : task[t].op = "signout" /\ task[t].pc = "done"

AfterSignoutWritesFail ==
  /\ sinceSignout # "no" => currentSession = None
  /\ \A t \in Tasks :
       (Entered(t) /\ task[t].afterSignout) =>
         task[t].res = "false" /\ task[t].calls = 0

\* a write service has thrown after a signout whose runtime call failed
WriteAfterFailedSignout ==
  /\ sinceSignout = "failed"
  /\ \E t \in Tasks :
       /\ task[t].op \in WriteOps /\ task[t].pc = "done"
       /\ task[t].afterSignout /\ task[t].outcome = "thrown"

\* C5: the runtime entry point is constructed at most once, whatever the
\* interleaving of the calls that trigger the initialisation.
EntryPointConstructedOnce == constructed <= 1

\* the flow of task t is waiting for the approval
ApprovalPending(t) ==
  \E c \in inflight : c.t = t /\ c.call = "awaitApproval"

\* C6: a pending awaitApproval never hangs: it is settled eventually, also
\* when the relay stays silent and when the dialog has been closed.
AwaitApprovalSettles ==
  \A t \in Tasks : ApprovalPending(t) ~> ~ApprovalPending(t)

\* C7: a write service has at most one put in flight; the metadata put is
\* in flight only after the blob put returned true, and the record put of a
\* write with an image only after both puts of the upload returned.
WriteStepsSequential ==
  \A t \in Tasks :
    task[t].op \in WriteOps =>
      /\ Cardinality({c \in inflight : c.t = t}) <= 1
      /\ \A c \in inflight :
           (c.t = t /\ c.step = "meta") => task[t].blobOk
      /\ \A c \in inflight :
           (c.t = t /\ c.step = "record" /\ task[t].img) =>
             task[t].blobOk /\ task[t].metaIssued

\* the record put of a write with an image is in flight
RecordPutAfterUpload ==
  \E c \in inflight : c.step = "record" /\ task[c.t].img

\* C8: an upload whose blob put returned false ends with the upload error
\* and never attempts the metadata put.
BlobFailureAborts ==
  \A t \in Tasks :
    task[t].op \in WriteOps =>
      /\ task[t].metaIssued => task[t].blobOk
      /\ (task[t].step = "blob" /\ task[t].res = "false" /\ task[t].pc = "done") =>
           /\ task[t].outcome = "thrown"
           /\ task[t].err = UploadError
           /\ ~task[t].metaIssued

\* the runtime has failed the blob put of a signed-in upload
BlobPutFailedSeen ==
  \E t \in Tasks :
    /\ task[t].op \in WriteOps /\ task[t].pc = "done"
    /\ task[t].step = "blob" /\ task[t].res = "false"
    /\ task[t].sessAtCall # None

\* C9: after a blob put that succeeded and a later put that failed, the
\* write service issues no delete, the blob is still stored and the
\* operation has thrown.
NoRollbackAfterPartialFailure ==
  /\ \A c \in inflight : c.call = "delete" => task[c.t].op \in DeleteOps
  /\ \A t \in Tasks :
       (task[t].op \in WriteOps /\ task[t].blobOk /\ task[t].putFailed
          /\ task[t].pc = "done") =>
         task[t].outcome = "thrown" /\ BlobPath \in store

\* the metadata put has failed after a stored blob
MetaFailedAfterBlob ==
  \E t \in Tasks :
    /\ task[t].op \in WriteOps /\ task[t].pc = "done"
    /\ task[t].blobOk /\ task[t].step = "meta" /\ task[t].res = "false"
    /\ BlobPath \in store

\* C10: a write service one of whose puts returned false ends by throwing
\* an AppError that carries an error code; it never returns normally.
FailedPutAlwaysThrows ==
  \A t \in Tasks :
    (task[t].op \in WriteOps /\ task[t].pc = "done" /\ task[t].putFailed) =>
      /\ task[t].outcome = "thrown"
      /\ task[t].err.code \in ErrorCodes

\* updateCalendar has thrown because the runtime failed its record put
RecordPutFailedSeen ==
  \E t \in Tasks :
    /\ task[t].op = "updateCalendar" /\ task[t].pc = "done"
    /\ task[t].step = "record" /\ task[t].putFailed
    /\ task[t].sessAtCall # None /\ task[t].outcome = "thrown"

\* C11: a write service that fails because its put found no Session throws
\* an error of kind UNAUTHORIZED, not the kind of a provider failure.
NoSessionWriteIsUnauthorized ==
  \A t \in Tasks :
    (task[t].op \in WriteOps /\ task[t].pc = "done" /\ task[t].putFailed
       /\ task[t].sessAtCall = None) =>
      task[t].outcome = "thrown" /\ task[t].err.code = "UNAUTHORIZED"

\* C12: a listing of N items of which exactly one holds bytes that do not
\* parse and the others hold valid bytes makes fetchUserCalendars return
\* N-1 objects with exactly one logged parse failure, without throwing.
OneBadItemIsSkipped ==
  \A t \in Tasks :
    (task[t].op = ListOp /\ task[t].pc = "done" /\ task[t].bad = 1
       /\ task[t].good = task[t].items - 1) =>
      /\ task[t].outcome = "returned"
      /\ task[t].got = task[t].items - 1
      /\ task[t].logs = 1

OneBadItemSeen ==
  \E t \in Tasks :
    /\ task[t].op = ListOp /\ task[t].pc = "done" /\ task[t].items >= 2
    /\ task[t].bad = 1 /\ task[t].good = task[t].items - 1
    /\ task[t].got = task[t].items - 1

\* C13: every listed item fetchUserCalendars leaves out of its result has a
\* log entry, from the service (logError) or from the facade (console.error).
EveryOmittedItemLogged ==
  \A t \in Tasks :
    (task[t].op = ListOp /\ task[t].pc = "done" /\ task[t].outcome = "returned") =>
      task[t].items - task[t].got <= task[t].logs + task[t].flogs

\* C14: a one-resource fetch whose bytes fail to parse logs the failure and
\* returns null; it never throws to its caller.
ParseFailureReturnsNull ==
  \A t \in Tasks :
    (task[t].op \in ReadOps /\ task[t].pc = "done" /\ task[t].rt = "garbage") =>
      /\ task[t].outcome = "returned" /\ task[t].val = "null"
      /\ task[t].logs = 1

\* C15 as stated: get returns null for an absent resource and reports a
\* failed read as an error, not as null.
GetTellsAbsentFromFailed ==
  \A t \in Tasks :
    (task[t].op = "get" /\ task[t].pc = "done") =>
      /\ task[t].rt = "absent" => task[t].outcome = "returned" /\ task[t].res = "null"
      /\ task[t].rt = "error" => task[t].res # "null"

\* C15 amended: get returns null, without throwing, both for an absent
\* resource and for a read the runtime failed.
GetAbsentOrFailedIsNull ==
  \A t \in Tasks :
    (task[t].op = "get" /\ task[t].pc = "done"
       /\ task[t].rt \in {"absent", "error"}) =>
      task[t].outcome = "returned" /\ task[t].res = "null"

GetFailedSeen ==
  \E t \in Tasks :
    /\ task[t].op = "get" /\ task[t].pc = "done" /\ task[t].rt = "error"
    /\ task[t].res = "null" /\ task[t].flogs = 1

\* C16: get, put, delete and list never throw to their caller.
FacadeCallsNeverThrow ==
  \A t \in Tasks :
    /\ task[t].op \in {"get", "list"} => task[t].outcome # "thrown"
    /\ task[t].step \in WriteSteps \cup {"get", "list"} => task[t].res # "threw"

\* a form's call of a calendar write service has ended, with form data the
\* record constructor accepted
FormWriteDone(t, op) ==
  /\ task[t].op = op /\ task[t].form \in Forms
  /\ task[t].pc = "done" /\ task[t].valid

OnlyRecordPut == <<[step |-> "record", path |-> CalendarPath]>>

\* C18 as stated: creating a calendar with no image calls put exactly once,
\* at the calendar path with a 13-character id, with a body whose name is the
\* submitted name, and puts no blob and no file metadata.
CreateWritesSubmittedName ==
  \A t \in Tasks :
    (FormWriteDone(t, "createCalendar") /\ ~task[t].img) =>
      /\ task[t].puts = OnlyRecordPut
      /\ Len(task[t].id) = IdLength
      /\ task[t].rec.name = task[t].name

\* C18 amended: the same, with a body whose name is the submitted name
\* without its leading and trailing whitespace.
CreateWritesTrimmedName ==
  \A t \in Tasks :
    (FormWriteDone(t, "createCalendar") /\ ~task[t].img) =>
      /\ task[t].puts = OnlyRecordPut
      /\ Len(task[t].id) = IdLength
      /\ task[t].rec.name = Trim(task[t].name)

CreatedWithPaddedName ==
  \E t \in Tasks :
    /\ FormWriteDone(t, "createCalendar") /\ ~task[t].img
    /\ task[t].outcome = "returned"
    /\ task[t].name # Trim(task[t].name)
    /\ task[t].puts = OnlyRecordPut

\* C19: an update from CalendarModal with the remove flag set and no new file
\* writes a record without image and puts no blob and no file metadata.
RemoveFlagClearsImage ==
  \A t \in Tasks :
    (FormWriteDone(t, "updateCalendar") /\ task[t].remove /\ ~task[t].img) =>
      /\ task[t].rec.image = "null"
      /\ task[t].puts = OnlyRecordPut

ImageRemovedSeen ==
  \E t \in Tasks :
    /\ FormWriteDone(t, "updateCalendar") /\ task[t].remove /\ ~task[t].img
    /\ task[t].prev = "oldImage" /\ task[t].outcome = "returned"
    /\ task[t].rec.image = "null"

\* C20: an update with no new file and without the remove flag writes a
\* record whose image is the calendar's previous image, from either form.
UpdateKeepsImage ==
  \A t \in Tasks :
    (FormWriteDone(t, "updateCalendar") /\ ~task[t].remove /\ ~task[t].img) =>
      task[t].rec.image = task[t].prev

ImageKeptSeen ==
  \E t \in Tasks :
    /\ FormWriteDone(t, "updateCalendar") /\ ~task[t].remove /\ ~task[t].img
    /\ task[t].form = "CalendarFormModal"
    /\ task[t].prev = "oldImage" /\ task[t].outcome = "returned"
    /\ task[t].rec.image = "oldImage"

\* C17: for every owner and path, the public address a fetch passes on is
\* pubky<owner><path> and the relative path an update or a delete passes on
\* is <path>: no conversion alters the owner or the path.
ConversionsAreLossless ==
  \A t \in Tasks :
    (task[t].owner # <<>> /\ task[t].caller = task[t].owner) =>
      task[t].arg = IF task[t].op \in ReadOps \cup {ListOp}
                    THEN AddressPrefix \o task[t].owner \o task[t].path
                    ELSE task[t].path

UpdatePathConverted ==
  \E t \in Tasks :
    /\ task[t].op = "updateCalendar" /\ task[t].owner \in OwnerIds
    /\ task[t].caller = task[t].owner
    /\ Len(task[t].path) = 5 + MaxIdLen
    /\ task[t].arg = task[t].path

\* C21: an update or a delete called on the URI of another owner passes no
\* path of that URI on to the facade.
ForeignUriGivesNoPath ==
  \A t \in Tasks :
    (task[t].op \in {"updateCalendar"} \cup DeleteOps /\ task[t].owner # <<>>
       /\ task[t].caller # task[t].owner) =>
      task[t].arg \notin RecordPaths

\* C22: extractPublicKey and extractFileId return null for the empty string,
\* null, undefined and every string that does not start with the scheme.
ExtractorsRejectForeignInput ==
  \A t \in Tasks :
    (task[t].op \in {"extractPublicKey", "extractFileId"}
       /\ (Falsy(task[t].input) \/ ~StartsAt(task[t].input.s, Scheme, 1))) =>
      ~task[t].result.ok

\* C24: parseCalendarUri returns author and id exactly for the strings
\* pubky://<author>/pub/pubky.app/calendar/<id> and null for every other
\* string; getCalendarPageUrl is non-null for the same strings.
ParseAcceptsOnlyCalendarUris ==
  \A t \in Tasks :
    /\ task[t].op = "parseCalendarUri" =>
         /\ task[t].result.ok <=> IsCalendarUri(task[t].input.s)
         /\ task[t].result.ok =>
              task[t].input.s =
                Scheme \o task[t].result.a
                  \o <<"/", "p", "u", "b", "/", "p", "u", "b", "k", "y", ".", "a",
                       "p", "p", "/", "c", "a", "l", "e", "n", "d", "a", "r", "/">>
                  \o task[t].result.b
    /\ task[t].op = "getCalendarPageUrl" =>
         (task[t].result.ok <=> IsCalendarUri(task[t].input.s))

\* C23: useProfile commits a fetch result only for the latest request it
\* issued and only while mounted; superseded results are dropped.
OnlyLatestRequestCommits ==
  view.commit.n # 0 =>
    view.commit.n = view.commit.latest /\ view.commit.mounted

\* C28: a page-level fetch superseded by a change of its input key never
\* commits its result to the displayed state.
SupersededFetchNeverShown ==
  (view.kind \in PageKinds /\ view.commit.n # 0) =>
    view.commit.n = view.commit.latest

\* C29: a signup the provider rejects and a signin that returns undefined
\* (or whose signer throws) leave currentSession as it was before the call.
FailedAuthKeepsSession ==
  [][\A t \in Tasks :
       (task[t].op \in {"signup", "signin"} /\ task[t].pc = "wait"
          /\ task'[t].pc = "done" /\ task'[t].res = "false") =>
         currentSession' = currentSession]_vars

FailedSignupWithSessionHeld ==
  \E t \in Tasks :
    /\ task[t].op = "signup" /\ task[t].pc = "done" /\ task[t].res = "false"
    /\ currentSession # None /\ retired = {}

\* C25: while no login and no logout is in progress, the store's
\* isAuthenticated is true exactly when the facade holds a Session; this
\* includes the state after a reload, after the callback page has set the
\* user, and after a login whose profile lookup failed.
StoreMatchesFacade ==
  (\A t \in Tasks :
     task[t].op \in {"authRun", "logout", "authCallback"} => task[t].pc = "done")
  => (auth.isAuthenticated <=> currentSession # None)

\* C26: when the store's logout() completes, the facade holds no Session
\* and the store has user = null and isAuthenticated = false (so the guard
\* of put and delete rejects every later write), whatever failed on the way.
LogoutLeavesNoSession ==
  [][\A t \in Tasks :
       (task'[t].op = "logout" /\ task'[t].pc = "done" /\ task[t].pc # "done")
       => (currentSession' = None /\ auth' = SignedOut)]_vars

\* C27: the approval of a flow whose dialog was closed (or whose effect was
\* re-run) before awaitApproval resolved installs no Session and sets no
\* user; a flow reaches its profile lookup, the only step that sets the
\* user, only while its own dialog is open.
AbandonedFlowNeverLogsIn ==
  [][/\ \A c \in inflight :
          (c.call = "awaitApproval" /\ task[c.t].cancelled /\ c \notin inflight')
          => /\ currentSession' = currentSession
             /\ auth' = auth
             /\ task'[c.t].pc = "done"
     /\ \A t \in Tasks :
          (task[t].pc # "profile" /\ task'[t].pc = "profile")
          => (dialogOpen /\ ~task[t].cancelled)]_vars

\* a closed dialog's flow was approved: the runtime handed out a Session
\* that the facade never held
AbandonedFlowApproved ==
  \E t \in Tasks :
    /\ task[t].op = "authRun" /\ task[t].pc = "done" /\ task[t].res = "true"
    /\ task[t].cancelled
    /\ nextHandle > 1 /\ currentSession = None /\ retired = {}

\* C30: whenever a calendar create, update or delete has failed (the record
\* was not written, or the delete did not return true), the form's handler
\* shows an error message and does not invoke the success callback.
FailureShownNotSuccess ==
  \A t \in Tasks :
    (/\ task[t].form # "none" /\ task[t].shown # "none"
     /\ IF task[t].op \in DeleteOps
        THEN task[t].res # "true"
        ELSE ~(task[t].step = "record" /\ task[t].res = "true"))
    => (task[t].shown = "error" /\ ~task[t].onSuccess)

\* a delete returned false and the handler of CalendarHeader has finished
FailedDeleteHandled ==
  \E t \in Tasks :
    /\ task[t].form = "CalendarHeader" /\ task[t].shown # "none"
    /\ task[t].res = "false"

====
